---- MODULE Spec2Model ----
(***************************************************************************)
(* A model of the three Miro administration scripts:                      *)
(*   miro_license_monitor.py  ("monitor")                                  *)
(*   miro_boards_export.py    ("boards")                                   *)
(*   miro_members_export.py   ("members")                                  *)
(* One behaviour is one invocation of one script.  The remote API and the *)
(* Slack webhook are the environment: every response is chosen by the     *)
(* environment when it is received.  A step of the model runs the script  *)
(* from one network call to the next.                                      *)
(***************************************************************************)
EXTENDS Integers, Sequences, FiniteSets, TLC

(* ------------------------------ bounds -------------------------------- *)

\* The longest page chain the server serves: the server's MaxRequests-th
\* response of one fetch never carries a usable continuation token.
MaxRequests == 3

\* The most records on one page.
MaxPageLen == 1

\* The longest member list the counting specification draws.
MaxMembers == 3

\* The largest small count/threshold the decision specification draws.
MaxCount == 9

(* -------------------------- values of the data ------------------------ *)

\* Python's None (also what a JSON null parses to).
None == "<None>"

\* A key that the JSON object does not have.
Absent == "<absent>"

\* JSON true, false and the number 0; every other string is a JSON string.
JTrue == "<true>"
JFalse == "<false>"
JZero == "<0>"

\* dict.get(key): None for a missing key, the value otherwise.
Get(v) == IF v = Absent THEN None ELSE v

\* Mutation of Truthy: the test written "is not None".
TruthyIsNotNone(v) == v # None

\* Python truthiness of the values above.
Truthy(v) == v \notin {None, JFalse, JZero, ""}

\* Texts that the code strips are sequences of characters.
Whitespace == {" ", "\n"}

RECURSIVE LStrip(_)
LStrip(s) == IF s = <<>> THEN s
             ELSE IF Head(s) \in Whitespace THEN LStrip(Tail(s)) ELSE s

RECURSIVE RStrip(_)
RStrip(s) == IF s = <<>> THEN s
             ELSE IF s[Len(s)] \in Whitespace
                  THEN RStrip(SubSeq(s, 1, Len(s) - 1)) ELSE s

\* str.strip()
Strip(s) == RStrip(LStrip(s))

\* An environment variable: unset (os.getenv gives None) or a text.
Unset == [isSet |-> FALSE, val |-> <<>>]
EnvText(s) == [isSet |-> TRUE, val |-> s]

\* "not x" for the value os.getenv returned.
Falsy(x) == ~x.isSet \/ x.val = <<>>

(* ------------------------- the environment ---------------------------- *)

Scripts == {"monitor", "boards", "members"}

\* The token file named at the prompt of the export scripts.
TokenFiles ==
    { [state |-> "missing", content |-> <<>>],
      [state |-> "unreadable", content |-> <<"t">>],
      [state |-> "ok", content |-> <<>>],
      [state |-> "ok", content |-> <<" ", "\n">>],
      [state |-> "ok", content |-> <<" ", "t", "\n">>] }

NoFile == [state |-> "missing", content |-> <<>>]

\* What is typed at the organization id prompt of the members export.
OrgInputs == { <<>>, <<" ">>, <<"o", " ">> }

\* Values of the monitor's environment variables.
EnvValues == { Unset, EnvText(<<>>), EnvText(<<"v">>) }

\* HTTP statuses the API answers with: success, rate limit, server error.
Statuses == {200, 429, 500}

\* The webhook's statuses.
HookStatuses == {200, 500}

\* The records the server holds in the page-fetching specification.
MainRecords ==
    { [id |-> "r1", active |-> JTrue, license |-> "full"],
      [id |-> "r2", active |-> JTrue, license |-> "basic"] }

RECURSIVE SeqsUpTo(_, _)
SeqsUpTo(S, n) ==
    IF n = 0 THEN { <<>> }
    ELSE LET shorter == SeqsUpTo(S, n - 1)
         IN  shorter \cup { Append(s, x) : s \in { t \in shorter : Len(t) = n - 1 }, x \in S }

\* The "data" arrays a page can carry.
Pages == SeqsUpTo(MainRecords, MaxPageLen)

\* The continuation token field of a page ("cursor", or "links"."next"):
\* missing, null, the empty string, or a token / next-page URL.
Tokens == {"c1", "c2"}
TokenFields == {Absent, None, ""} \cup Tokens

\* A response with an error status; its body is only ever printed.
ErrorResponse(st) ==
    [status |-> st, body |-> "text", hasData |-> FALSE, data |-> <<>>, token |-> Absent]

\* A 200 response whose body does not parse as JSON.
Unparseable ==
    [status |-> 200, body |-> "unparseable", hasData |-> FALSE, data |-> <<>>, token |-> Absent]

\* A 200 response whose body is JSON but no object (it has no .get).
NonObject ==
    [status |-> 200, body |-> "nonobject", hasData |-> FALSE, data |-> <<>>, token |-> Absent]

\* A 200 response whose body is a JSON object.
PageResponses ==
    { [status |-> 200, body |-> "object", hasData |-> TRUE, data |-> d, token |-> t] :
        d \in Pages, t \in TokenFields }
    \cup
    { [status |-> 200, body |-> "object", hasData |-> FALSE, data |-> <<>>, token |-> t] :
        t \in TokenFields }

Responses ==
    { ErrorResponse(st) : st \in Statuses \ {200} } \cup {Unparseable, NonObject}
    \cup PageResponses

(* ----------------------- constants of the code ------------------------ *)

\* total_licenses in the monitor's main.
TotalLicenses == 600

\* params["limit"] of the boards request.
BoardsLimit == 50

BoardsBase == "https://api.miro.com/v2/boards"
MembersBase == "https://api.miro.com/v2/orgs/{org_id}/members"

(* ------------------------------ state --------------------------------- *)

VARIABLES
    script,      \* which script this invocation runs
    env,         \* what the invocation finds: token file, prompt input, environment variables
    pc,          \* "start", "awaiting_get", "awaiting_post", "exit", "done", "raised"
    err,         \* the exception that left main ("" when none)
    api_token,   \* main's api_token
    org_id,      \* org_id of fetch_members
    url,         \* the URL of the next GET
    cursor,      \* fetch_members' cursor
    records,     \* the accumulator of the fetch loop (members / boards)
    fetch,       \* the fetch call: "none", "running", "returned", "raised"
    fetched,     \* main's binding of what the fetch returned
    requests,    \* every GET issued, in order
    responses,   \* every GET response received, in order
    total,       \* the monitor's total_licenses
    used,        \* the monitor's used_licenses (-1: not computed)
    msg,         \* the monitor's alert_message
    posts,       \* every webhook POST issued, in order
    replies,     \* every webhook status received, in order
    csv          \* the output file of the export scripts

vars == << script, env, pc, err, api_token, org_id, url, cursor, records, fetch,
           fetched, requests, responses, total, used, msg, posts, replies, csv >>

NoUrl == [base |-> "", org |-> <<>>]
NoMsg == [variant |-> "none", used |-> 0, total |-> 0, value |-> 0]
NoCsv == [written |-> FALSE, file |-> "", rows |-> <<>>]

(* ---------------------------- the requests ---------------------------- *)

\* url / url.format(org_id=org_id) of the members endpoint.
MembersUrl(org) == [base |-> MembersBase, org |-> org]

\* Mutation of CursorParams: the cursor never passed on.
CursorParamsNoCursor(c) == [cursor |-> Absent, limit |-> 0]

\* params = {"cursor": cursor} if cursor else {}
CursorParams(c) ==
    IF Truthy(c) THEN [cursor |-> c, limit |-> 0] ELSE [cursor |-> Absent, limit |-> 0]

\* requests.get(url, headers=headers, params=params) of fetch_members.
MembersGet(u, tok, c) == [url |-> u, auth |-> tok, params |-> CursorParams(c)]

\* requests.get(url, headers=headers, params=params) of fetch_boards:
\* params stays {"limit": 50} on every request.
BoardsGet(u, tok) ==
    [url |-> u, auth |-> tok, params |-> [cursor |-> Absent, limit |-> BoardsLimit]]

\* The server serves chains of at most MaxRequests pages.
ServerCanSend(resp) ==
    Len(requests) < MaxRequests \/ ~Truthy(Get(resp.token))

(* --------------------------- the fetch loops -------------------------- *)

\* response.raise_for_status(): raises HTTPError for a 4xx or 5xx status.
RaisesForStatus(st) == st >= 400 /\ st < 600

\* Mutation of PageData: the records read from a key the API does not send.
PageDataWrongKey(resp) == <<>>

\* data.get("data", [])
PageData(resp) == IF resp.hasData THEN resp.data ELSE <<>>

\* Mutation of MonitorClassify: raise_for_status() left out, so that an
\* error response is read like a page.
MonitorClassifyNoRaise(resp) ==
    IF resp.body = "unparseable" THEN "JSONDecodeError"
    ELSE IF resp.body = "nonobject" THEN "AttributeError"
    ELSE "page"

\* Mutation of MonitorClassify: a token seen before ends the fetch with an error.
MonitorClassifyStopsOnRepeat(resp) ==
    IF RaisesForStatus(resp.status) THEN "HTTPError"
    ELSE IF resp.body = "unparseable" THEN "JSONDecodeError"
    ELSE IF resp.body = "nonobject" THEN "AttributeError"
    ELSE IF \E i \in 1 .. Len(responses) :
                Truthy(Get(resp.token)) /\ responses[i].token = resp.token
         THEN "ProtocolError"
    ELSE "page"

\* What one iteration of the monitor's fetch_members makes of a response.
MonitorClassify(resp) ==
    IF RaisesForStatus(resp.status) THEN "HTTPError"
    ELSE IF resp.body = "unparseable" THEN "JSONDecodeError"
    ELSE IF resp.body = "nonobject" THEN "AttributeError"
    ELSE "page"

\* Mutation of BoardsClassify: an error status raises instead of breaking.
BoardsClassifyRaises(resp) ==
    IF resp.status # 200 THEN "HTTPError"
    ELSE IF resp.body = "unparseable" THEN "break"
    ELSE IF resp.body = "nonobject" THEN "AttributeError"
    ELSE "page"

\* What one iteration of fetch_boards makes of a response.
BoardsClassify(resp) ==
    IF resp.status # 200 THEN "break"
    ELSE IF resp.body = "unparseable" THEN "break"
    ELSE IF resp.body = "nonobject" THEN "AttributeError"
    ELSE "page"

\* Mutation of MembersClassify: the parse error caught as in fetch_boards.
MembersClassifyCatches(resp) ==
    IF resp.status # 200 THEN "break"
    ELSE IF resp.body = "unparseable" THEN "break"
    ELSE IF resp.body = "nonobject" THEN "AttributeError"
    ELSE "page"

\* What one iteration of the members export's fetch_members makes of a response.
MembersClassify(resp) ==
    IF resp.status # 200 THEN "break"
    ELSE IF resp.body = "unparseable" THEN "JSONDecodeError"
    ELSE IF resp.body = "nonobject" THEN "AttributeError"
    ELSE "page"

(* ------------------------ aggregation, decision ----------------------- *)

\* member.get("active") and member.get("license") == "full"
IsLicensed(m) == Truthy(Get(m.active)) /\ Get(m.license) = "full"

\* Mutation of CountLicensed: every member counted, the filter left out.
CountEveryMember(members) == Len(members)

\* len(licensed_users)
CountLicensed(members) == Len(SelectSeq(members, IsLicensed))

\* Mutation of Decide: the comparison written >= (a tie is an overage).
DecideTieIsOverage(u, t) ==
    IF u >= t
    THEN [variant |-> "Overage", used |-> u, total |-> t, value |-> u - t]
    ELSE [variant |-> "WithinLimit", used |-> u, total |-> t, value |-> t - u]

\* The message main builds: which text, and the numbers it renders.
Decide(u, t) ==
    IF u > t
    THEN [variant |-> "Overage", used |-> u, total |-> t, value |-> u - t]
    ELSE [variant |-> "WithinLimit", used |-> u, total |-> t, value |-> t - u]

\* requests.post(webhook_url, json={"text": message})
SlackPost(hook, m) == [url |-> hook, text |-> m]

(* ------------------------------ exports ------------------------------- *)

\* The row export_to_csv of the boards export writes for a board
\* (the records of this model carry no name, owner, dates or link).
BoardRow(b) == << b.id, None, None, None, None, None >>

\* The row export_to_csv of the members export writes for a member
\* (adminRoles missing joins to "", the two dates default to "N/A").
MemberRow(m) ==
    << m.id, Get(m.active), "", None, "N/A", Get(m.license), "N/A", None, None >>

RECURSIVE Rows(_, _)
Rows(rs, kind) ==
    IF rs = <<>> THEN <<>>
    ELSE << IF kind = "boards" THEN BoardRow(Head(rs)) ELSE MemberRow(Head(rs)) >>
         \o Rows(Tail(rs), kind)

\* Mutation of ExportCsv: the file written whatever came back.
ExportCsvAlways(rs, kind) ==
    [written |-> TRUE,
     file |-> IF kind = "boards" THEN "miro_boards_export.csv" ELSE "miro_users_export.csv",
     rows |-> Rows(rs, kind)]

\* main after the fetch of an export script: write the file iff records came back.
ExportCsv(rs, kind) ==
    IF rs # <<>>
    THEN [written |-> TRUE,
          file |-> IF kind = "boards" THEN "miro_boards_export.csv" ELSE "miro_users_export.csv",
          rows |-> Rows(rs, kind)]
    ELSE NoCsv

(* --------------------------- preconditions ---------------------------- *)

\* if not api_token or not org_id or not slack_webhook_url
MonitorPreconditionFails(tok, org, hook) == Falsy(tok) \/ Falsy(org) \/ Falsy(hook)

\* Mutation of BoardsLoadToken: the check for an empty token left out.
BoardsLoadTokenUnchecked(file) ==
    IF file.state = "missing" THEN [ok |-> FALSE, token |-> <<>>]
    ELSE IF file.state = "unreadable" THEN [ok |-> FALSE, token |-> <<>>]
    ELSE [ok |-> TRUE, token |-> Strip(file.content)]

\* main of the boards export up to the fetch: the file must exist, be
\* readable and hold a token after strip().
BoardsLoadToken(file) ==
    IF file.state = "missing" THEN [ok |-> FALSE, token |-> <<>>]
    ELSE IF file.state = "unreadable" THEN [ok |-> FALSE, token |-> <<>>]
    ELSE IF Strip(file.content) = <<>> THEN [ok |-> FALSE, token |-> <<>>]
    ELSE [ok |-> TRUE, token |-> Strip(file.content)]

\* The same lines of the members export's main.
MembersLoadToken(file) ==
    IF file.state = "missing" THEN [ok |-> FALSE, token |-> <<>>]
    ELSE IF file.state = "unreadable" THEN [ok |-> FALSE, token |-> <<>>]
    ELSE IF Strip(file.content) = <<>> THEN [ok |-> FALSE, token |-> <<>>]
    ELSE [ok |-> TRUE, token |-> Strip(file.content)]

\* org_id = input(...).strip() in the members export's fetch_members;
\* the loop starts whatever was typed.
MembersOrgId(typed) == Strip(typed)

(* ------------------------------- Init --------------------------------- *)

Envs(s) ==
    IF s = "monitor"
    THEN { [tokenFile |-> NoFile, orgInput |-> <<>>, envToken |-> t, envOrg |-> o, envHook |-> h] :
             t \in EnvValues, o \in EnvValues, h \in EnvValues }
    ELSE IF s = "boards"
    THEN { [tokenFile |-> f, orgInput |-> <<>>, envToken |-> Unset, envOrg |-> Unset,
            envHook |-> Unset] : f \in TokenFiles }
    ELSE { [tokenFile |-> f, orgInput |-> o, envToken |-> Unset, envOrg |-> Unset,
            envHook |-> Unset] : f \in TokenFiles, o \in OrgInputs }

\* Every variable but script, env, pc, fetched, used and total, before main runs.
Fresh ==
    /\ err = ""
    /\ api_token = <<>>
    /\ org_id = <<>>
    /\ url = NoUrl
    /\ cursor = None
    /\ records = <<>>
    /\ fetch = "none"
    /\ requests = <<>>
    /\ responses = <<>>
    /\ msg = NoMsg
    /\ posts = <<>>
    /\ replies = <<>>
    /\ csv = NoCsv

Init ==
    /\ script \in Scripts
    /\ env \in Envs(script)
    /\ pc = "start"
    /\ fetched = <<>>
    /\ used = -1
    /\ total = 0
    /\ Fresh

(* ------------------------------ main ---------------------------------- *)

\* The monitor's main up to its first GET.
MonitorStart ==
    /\ script = "monitor"
    /\ pc = "start"
    /\ total' = TotalLicenses
    /\ IF MonitorPreconditionFails(env.envToken, env.envOrg, env.envHook)
       THEN /\ pc' = "raised"
            /\ err' = "ValueError"
            /\ UNCHANGED << api_token, org_id, url, cursor, records, fetch, requests >>
       ELSE /\ api_token' = env.envToken.val
            /\ org_id' = env.envOrg.val
            /\ url' = MembersUrl(org_id')
            /\ records' = <<>>
            /\ cursor' = None
            /\ fetch' = "running"
            /\ requests' = << MembersGet(url', api_token', cursor') >>
            /\ pc' = "awaiting_get"
            /\ err' = ""
    /\ UNCHANGED << script, env, fetched, responses, used, msg, posts, replies, csv >>

\* The boards export's main up to its first GET.
BoardsStart ==
    /\ script = "boards"
    /\ pc = "start"
    /\ LET loaded == BoardsLoadToken(env.tokenFile)
       IN  IF ~loaded.ok
           THEN /\ pc' = "exit"
                /\ UNCHANGED << api_token, url, records, fetch, requests >>
           ELSE /\ api_token' = loaded.token
                /\ url' = [base |-> BoardsBase, org |-> <<>>]
                /\ records' = <<>>
                /\ fetch' = "running"
                /\ requests' = << BoardsGet(url', api_token') >>
                /\ pc' = "awaiting_get"
    /\ UNCHANGED << script, env, err, org_id, cursor, fetched, responses, total, used,
                    msg, posts, replies, csv >>

\* The members export's main up to its first GET.
MembersStart ==
    /\ script = "members"
    /\ pc = "start"
    /\ LET loaded == MembersLoadToken(env.tokenFile)
       IN  IF ~loaded.ok
           THEN /\ pc' = "exit"
                /\ UNCHANGED << api_token, org_id, url, cursor, records, fetch, requests >>
           ELSE /\ api_token' = loaded.token
                /\ org_id' = MembersOrgId(env.orgInput)
                /\ url' = MembersUrl(org_id')
                /\ records' = <<>>
                /\ cursor' = None
                /\ fetch' = "running"
                /\ requests' = << MembersGet(url', api_token', cursor') >>
                /\ pc' = "awaiting_get"
    /\ UNCHANGED << script, env, err, fetched, responses, total, used, msg, posts,
                    replies, csv >>

\* One response to the monitor's fetch_members, and the code up to the
\* next network call: the next GET, or (the fetch over) the count, the
\* message and the webhook POST.
MonitorRecv(resp) ==
    /\ script = "monitor"
    /\ pc = "awaiting_get"
    /\ ServerCanSend(resp)
    /\ responses' = Append(responses, resp)
    /\ LET kind == MonitorClassify(resp)
       IN  IF kind # "page"
           THEN /\ fetch' = "raised"
                /\ pc' = "raised"
                /\ err' = kind
                /\ UNCHANGED << records, cursor, requests, fetched, used, msg, posts >>
           ELSE /\ records' = records \o PageData(resp)
                /\ cursor' = Get(resp.token)
                /\ err' = ""
                /\ IF Truthy(cursor')
                   THEN /\ requests' = Append(requests, MembersGet(url, api_token, cursor'))
                        /\ UNCHANGED << fetch, pc, fetched, used, msg, posts >>
                   ELSE /\ fetch' = "returned"
                        /\ fetched' = records'
                        /\ used' = CountLicensed(fetched')
                        /\ msg' = Decide(used', total)
                        /\ posts' = Append(posts, SlackPost(env.envHook.val, msg'))
                        /\ pc' = "awaiting_post"
                        /\ UNCHANGED requests
    /\ UNCHANGED << script, env, api_token, org_id, url, total, replies, csv >>

\* Mutation of MonitorPosted: raise_for_status() left out of post_to_slack.
MonitorPostedSwallows(st) ==
    /\ script = "monitor"
    /\ pc = "awaiting_post"
    /\ replies' = Append(replies, st)
    /\ pc' = "done"
    /\ err' = ""
    /\ UNCHANGED << script, env, api_token, org_id, url, cursor, records, fetch, fetched,
                    requests, responses, total, used, msg, posts, csv >>

\* The webhook's answer: post_to_slack raises for an error status.
MonitorPosted(st) ==
    /\ script = "monitor"
    /\ pc = "awaiting_post"
    /\ replies' = Append(replies, st)
    /\ IF RaisesForStatus(st)
       THEN pc' = "raised" /\ err' = "HTTPError"
       ELSE pc' = "done" /\ err' = ""
    /\ UNCHANGED << script, env, api_token, org_id, url, cursor, records, fetch, fetched,
                    requests, responses, total, used, msg, posts, csv >>

\* Mutation of BoardsRecv: a 429 answer makes the loop send the same
\* request again.
BoardsRecvRetries(resp) ==
    /\ script = "boards"
    /\ pc = "awaiting_get"
    /\ ServerCanSend(resp)
    /\ responses' = Append(responses, resp)
    /\ LET next_link == Get(resp.token)
       IN  IF resp.status = 429
           THEN /\ requests' = Append(requests, requests[Len(requests)])
                /\ UNCHANGED << records, url, fetch, pc, err, fetched, csv >>
           ELSE IF resp.body = "nonobject"
           THEN /\ fetch' = "raised"
                /\ pc' = "raised"
                /\ err' = "AttributeError"
                /\ UNCHANGED << records, url, requests, fetched, csv >>
           ELSE LET isPage == resp.status = 200 /\ resp.body = "object"
                IN  /\ records' = IF isPage THEN records \o resp.data ELSE records
                    /\ err' = ""
                    /\ IF isPage /\ Truthy(next_link)
                       THEN /\ url' = [base |-> next_link, org |-> <<>>]
                            /\ requests' = Append(requests, BoardsGet(url', api_token))
                            /\ UNCHANGED << fetch, pc, fetched, csv >>
                       ELSE /\ fetch' = "returned"
                            /\ fetched' = records'
                            /\ csv' = ExportCsv(fetched', "boards")
                            /\ pc' = "done"
                            /\ UNCHANGED << url, requests >>
    /\ UNCHANGED << script, env, api_token, org_id, cursor, total, used, msg, posts, replies >>

\* One response to fetch_boards, and the code up to the next GET or, the
\* fetch over, to the end of main.
BoardsRecv(resp) ==
    /\ script = "boards"
    /\ pc = "awaiting_get"
    /\ ServerCanSend(resp)
    /\ responses' = Append(responses, resp)
    /\ LET kind == BoardsClassify(resp)
           next_link == Get(resp.token)
       IN  IF kind \notin {"page", "break"}
           THEN /\ fetch' = "raised"
                /\ pc' = "raised"
                /\ err' = kind
                /\ UNCHANGED << records, url, requests, fetched, csv >>
           ELSE /\ records' = IF kind = "page" THEN records \o PageData(resp) ELSE records
                /\ err' = ""
                /\ IF kind = "page" /\ Truthy(next_link)
                   THEN /\ url' = [base |-> next_link, org |-> <<>>]
                        /\ requests' = Append(requests, BoardsGet(url', api_token))
                        /\ UNCHANGED << fetch, pc, fetched, csv >>
                   ELSE /\ fetch' = "returned"
                        /\ fetched' = records'
                        /\ csv' = ExportCsv(fetched', "boards")
                        /\ pc' = "done"
                        /\ UNCHANGED << url, requests >>
    /\ UNCHANGED << script, env, api_token, org_id, cursor, total, used, msg, posts, replies >>

\* One response to the members export's fetch_members, and the code up to
\* the next GET or, the fetch over, to the end of main.
MembersRecv(resp) ==
    /\ script = "members"
    /\ pc = "awaiting_get"
    /\ ServerCanSend(resp)
    /\ responses' = Append(responses, resp)
    /\ LET kind == MembersClassify(resp)
       IN  IF kind \notin {"page", "break"}
           THEN /\ fetch' = "raised"
                /\ pc' = "raised"
                /\ err' = kind
                /\ UNCHANGED << records, cursor, requests, fetched, csv >>
           ELSE /\ records' = IF kind = "page" THEN records \o PageData(resp) ELSE records
                /\ cursor' = IF kind = "page" THEN Get(resp.token) ELSE cursor
                /\ err' = ""
                /\ IF kind = "page" /\ Truthy(cursor')
                   THEN /\ requests' = Append(requests, MembersGet(url, api_token, cursor'))
                        /\ UNCHANGED << fetch, pc, fetched, csv >>
                   ELSE /\ fetch' = "returned"
                        /\ fetched' = records'
                        /\ csv' = ExportCsv(fetched', "members")
                        /\ pc' = "done"
                        /\ UNCHANGED requests
    /\ UNCHANGED << script, env, api_token, org_id, url, total, used, msg, posts, replies >>

Next ==
    \/ MonitorStart
    \/ BoardsStart
    \/ MembersStart
    \/ \E resp \in Responses : MonitorRecv(resp)
    \/ \E st \in HookStatuses : MonitorPosted(st)
    \/ \E resp \in Responses : BoardsRecv(resp)
    \/ \E resp \in Responses : MembersRecv(resp)

Spec == Init /\ [][Next]_vars

(* ------------- the count and the decision on drawn inputs ------------- *)

\* Member records as the API may send them: "active" missing, a boolean,
\* a string or a number; "license" missing, "full" or another plan.
ActiveValues == {Absent, JTrue, JFalse, "false", JZero}
LicenseValues == {Absent, "full", "basic"}
MemberRecords ==
    { [id |-> "m", active |-> a, license |-> l] : a \in ActiveValues, l \in LicenseValues }

\* main's count over a member list the fetch returned.
CountStep ==
    /\ pc = "count_in"
    /\ used' = CountLicensed(fetched)
    /\ pc' = "counted"
    /\ UNCHANGED << script, env, err, api_token, org_id, url, cursor, records, fetch,
                    fetched, requests, responses, total, msg, posts, replies, csv >>

InitCount ==
    /\ script = "monitor"
    /\ env \in { e \in Envs("monitor") :
                   ~MonitorPreconditionFails(e.envToken, e.envOrg, e.envHook) }
    /\ pc = "count_in"
    /\ fetched \in SeqsUpTo(MemberRecords, MaxMembers)
    /\ used = -1
    /\ total = TotalLicenses
    /\ Fresh

SpecCount == InitCount /\ [][CountStep]_vars

\* Counts and thresholds around each other and around the code's threshold.
Counts == 0 .. MaxCount \cup {TotalLicenses - 1, TotalLicenses, TotalLicenses + 1}

\* main's choice of message for a count and a threshold.
DecideStep ==
    /\ pc = "decide_in"
    /\ msg' = Decide(used, total)
    /\ pc' = "decided"
    /\ UNCHANGED << script, env, err, api_token, org_id, url, cursor, records, fetch,
                    fetched, requests, responses, total, used, posts, replies, csv >>

InitDecide ==
    /\ script = "monitor"
    /\ env \in { e \in Envs("monitor") :
                   ~MonitorPreconditionFails(e.envToken, e.envOrg, e.envHook) }
    /\ pc = "decide_in"
    /\ fetched = <<>>
    /\ used \in Counts
    /\ total \in Counts
    /\ Fresh

SpecDecide == InitDecide /\ [][DecideStep]_vars

(* ------------------------ words of the claims ------------------------- *)

\* A response with a success status and a well-formed page in its body.
IsPage(r) == r.status = 200 /\ r.body = "object"

\* A response with a non-success status.
NonSuccess(r) == r.status < 200 \/ r.status > 299

\* The page carries a continuation token the client can follow.
HasToken(r) == IsPage(r) /\ r.token \notin {Absent, None, ""}

\* The records of the pages rs, concatenated in page order.
RECURSIVE ChainRecords(_)
ChainRecords(rs) ==
    IF rs = <<>> THEN <<>>
    ELSE ChainRecords(SubSeq(rs, 1, Len(rs) - 1)) \o rs[Len(rs)].data

\* rs is a finite chain of pages P1..Pn: every page but the last carries a
\* token, the last carries none.
IsChain(rs) ==
    /\ rs # <<>>
    /\ \A i \in 1 .. Len(rs) : IsPage(rs[i])
    /\ \A i \in 1 .. Len(rs) - 1 : HasToken(rs[i])
    /\ rs[Len(rs)].token = Absent

\* The responses before the last one.
Earlier == SubSeq(responses, 1, Len(responses) - 1)

\* Some page returned a token that an earlier page had returned.
TokenCycle ==
    \E j, k \in 1 .. Len(responses) :
        j < k /\ HasToken(responses[j]) /\ HasToken(responses[k])
              /\ responses[k].token = responses[j].token

\* The token request number i carries: the cursor parameter of the members
\* endpoint, the URL of the boards endpoint.
Carried(i) ==
    IF script = "boards" THEN requests[i].url.base ELSE requests[i].params.cursor

(* ============================== claims ================================ *)

\* C1: for every count `used` and threshold `total`, the message is the
\* Overage one iff used > total and the WithinLimit one otherwise (so
\* used = total is within the limit); Overage reports used - total,
\* WithinLimit reports total - used.
C1_Decision ==
    pc = "decided" =>
        /\ msg.variant \in {"Overage", "WithinLimit"}
        /\ (msg.variant = "Overage") <=> (used > total)
        /\ msg.used = used /\ msg.total = total
        /\ msg.variant = "Overage" => msg.value = used - total
        /\ msg.variant = "WithinLimit" => msg.value = total - used

\* C1 witness: the tie used = total = 600 was decided, as within the limit.
C1_Witness ==
    /\ pc = "decided"
    /\ used = TotalLicenses /\ total = TotalLicenses
    /\ msg.variant = "WithinLimit" /\ msg.value = 0

\* C2: when the responses of a fetch form a chain of pages P1..Pn (all
\* successes, every page but the last with a token, the last without), the
\* fetch of each of the three scripts has returned the records of P1..Pn
\* concatenated in page order, nothing reordered or dropped, after exactly
\* n GET requests.
C2_Concatenation ==
    IsChain(responses) =>
        /\ fetch = "returned"
        /\ fetched = ChainRecords(responses)
        /\ Len(requests) = Len(responses)

\* C2 witness: a chain of three pages whose records come out of order and
\* twice (r2, r1, r1) was fetched with three requests.
C2_Witness ==
    /\ IsChain(responses)
    /\ Len(responses) = 3 /\ Len(requests) = 3
    /\ fetch = "returned"
    /\ Len(fetched) = 3
    /\ fetched[1].id = "r2" /\ fetched[2].id = "r1" /\ fetched[3].id = "r1"

\* C2 witness of the single page: one request, one page, its records returned.
C2_WitnessSinglePage ==
    /\ IsChain(responses)
    /\ Len(responses) = 1 /\ Len(requests) = 1
    /\ fetch = "returned" /\ fetched # <<>>

\* C3 as claimed: once a page has returned a token that an earlier page
\* returned, the fetch has failed with an error.
C3_CycleIsAnError == TokenCycle => fetch = "raised"

\* C3 as the code has it: no fetch knows of cycles. A page whose token an
\* earlier page had returned is followed like any other: the next GET
\* carries the repeated token, and no protocol error exists; the fetch
\* ends only with a later response that ends any fetch.
C3_CycleIsFollowed ==
    /\ err \in {"", "ValueError", "HTTPError", "JSONDecodeError", "AttributeError"}
    /\ \A j, k \in 1 .. Len(responses) :
         ( j < k /\ HasToken(responses[j]) /\ HasToken(responses[k])
                 /\ responses[k].token = responses[j].token )
         => /\ Len(requests) > k
            /\ Carried(k + 1) = responses[k].token
            /\ Carried(k + 1) = Carried(j + 1)

\* C3 witness: the monitor's fetch is running its third request, after two
\* pages that both returned the token c1.
C3_Witness ==
    /\ script = "monitor"
    /\ TokenCycle
    /\ fetch = "running"
    /\ Len(responses) = 2 /\ Len(requests) = 3
    /\ requests[2] = requests[3]

\* C4: in the monitor, once any page request was answered with a
\* non-success status, fetch_members has raised and the error has left
\* main: nothing was returned, no count was computed, no message built and
\* nothing posted to the webhook.
C4_MonitorPropagates ==
    ( script = "monitor" /\ \E i \in 1 .. Len(responses) : NonSuccess(responses[i]) )
    => /\ fetch = "raised"
       /\ pc = "raised"
       /\ err = "HTTPError"
       /\ fetched = <<>>
       /\ used = -1
       /\ msg = NoMsg
       /\ posts = <<>>

\* C4 witness: the monitor's second page request failed after a first page
\* with a record, and the run ended with the error.
C4_Witness ==
    /\ script = "monitor"
    /\ Len(responses) = 2
    /\ IsPage(responses[1]) /\ NonSuccess(responses[2])
    /\ records # <<>>
    /\ pc = "raised"

\* C5: in the two export scripts, when the request for page k is answered
\* with a non-success status, the fetch raises nothing and returns the
\* records of pages 1..k-1 concatenated in order (nothing when k = 1),
\* having issued k requests.
C5_ExportReturnsPartial ==
    ( script \in {"boards", "members"} /\ responses # <<>>
      /\ NonSuccess(responses[Len(responses)]) )
    => /\ \A i \in 1 .. Len(responses) - 1 : IsPage(responses[i])
       /\ fetch = "returned"
       /\ err = ""
       /\ pc = "done"
       /\ fetched = ChainRecords(Earlier)
       /\ Len(requests) = Len(responses)

\* C5 witness: the members export's third page request failed and the
\* records of the first two pages were returned.
C5_Witness ==
    /\ script = "members"
    /\ Len(responses) = 3
    /\ NonSuccess(responses[3])
    /\ fetch = "returned"
    /\ Len(fetched) = 2

\* C5 witness of k = 1: the boards export's first request failed and the
\* fetch returned nothing.
C5_WitnessFirstPage ==
    /\ script = "boards"
    /\ Len(responses) = 1
    /\ NonSuccess(responses[1])
    /\ fetch = "returned"
    /\ fetched = <<>>

\* C6 as claimed: after a page whose body does not parse, no fetch has
\* returned a record sequence as a normal result.
C6_MalformedNeverReturns ==
    ( responses # <<>> /\ responses[Len(responses)].body = "unparseable" )
    => fetch # "returned"

\* C6 as the code has it: a body that does not parse makes the two
\* fetch_members raise (no count, no post, no file), while fetch_boards
\* catches the parse error and returns the records of the pages before
\* it as a normal result, which main goes on to export.
C6_MalformedByScript ==
    ( responses # <<>> /\ responses[Len(responses)].body = "unparseable" )
    => IF script = "boards"
       THEN /\ fetch = "returned"
            /\ pc = "done"
            /\ err = ""
            /\ fetched = ChainRecords(Earlier)
            /\ csv.written <=> fetched # <<>>
       ELSE /\ fetch = "raised"
            /\ pc = "raised"
            /\ err = "JSONDecodeError"
            /\ fetched = <<>>
            /\ posts = <<>>
            /\ ~csv.written

\* C6 witness: the boards export got a second page that does not parse
\* and wrote the file from the first page.
C6_Witness ==
    /\ script = "boards"
    /\ Len(responses) = 2
    /\ responses[2].body = "unparseable"
    /\ fetch = "returned"
    /\ fetched # <<>>
    /\ csv.written

\* C6 witness of the other two scripts: the members export's fetch raised
\* on a second page that does not parse.
C6_WitnessRaised ==
    /\ script = "members"
    /\ Len(responses) = 2
    /\ responses[2].body = "unparseable"
    /\ fetch = "raised"
    /\ records # <<>>

\* The bearer credential is absent or empty: the variable unset or empty,
\* the token file missing, unreadable or empty (after strip()).
CredentialMissing ==
    IF script = "monitor"
    THEN Falsy(env.envToken)
    ELSE \/ env.tokenFile.state \in {"missing", "unreadable"}
         \/ Strip(env.tokenFile.content) = <<>>

\* C7: in every script, when the bearer credential is absent or empty, the
\* run ends as a precondition failure (the monitor raises ValueError, the
\* exports report and leave main) and no HTTP request is ever issued.
C7_NoRequestWithoutCredential ==
    ( CredentialMissing /\ pc # "start" )
    => /\ requests = <<>>
       /\ posts = <<>>
       /\ fetch = "none"
       /\ IF script = "monitor"
          THEN pc = "raised" /\ err = "ValueError"
          ELSE pc = "exit"

\* C7 witness: the boards export found an empty token file and left main.
C7_Witness ==
    /\ script = "boards"
    /\ env.tokenFile.state = "ok" /\ env.tokenFile.content = <<>>
    /\ pc = "exit"

\* C7 witness of the monitor: MIRO_API_TOKEN unset, the rest set.
C7_WitnessMonitor ==
    /\ script = "monitor"
    /\ ~env.envToken.isSet /\ ~Falsy(env.envOrg) /\ ~Falsy(env.envHook)
    /\ pc = "raised"

\* The organization identifier is missing or empty.
OrgMissing ==
    IF script = "monitor" THEN Falsy(env.envOrg) ELSE env.orgInput = <<>>

\* C8 as claimed: in the monitor and the members export no request is
\* issued to the members endpoint when the organization id is missing or
\* empty.
C8_NoRequestWithoutOrg ==
    ( script \in {"monitor", "members"} /\ OrgMissing ) => requests = <<>>

\* C9 as claimed: the used-license count is the number of fetched records
\* whose active is true and whose license is "full".
C9_CountsActiveTrueFull ==
    pc = "counted" =>
        used = Cardinality({ i \in 1 .. Len(fetched) :
                               fetched[i].active = JTrue /\ fetched[i].license = "full" })

\* The tokens the pages returned are pairwise distinct.
TokensDistinct ==
    \A j, k \in 1 .. Len(responses) :
        ( j < k /\ HasToken(responses[j]) /\ HasToken(responses[k]) )
        => responses[j].token # responses[k].token

\* C10: no fetch retries. A non-success response is the last event of its
\* fetch: it answers the last request issued and no request follows it.
\* Requests and responses alternate, and when the tokens the server
\* returned are distinct no request is issued twice.
C10_NoRetry ==
    /\ \A i \in 1 .. Len(responses) : NonSuccess(responses[i]) => Len(requests) = i
    /\ Len(requests) \in {Len(responses), Len(responses) + 1}
    /\ TokensDistinct =>
         \A i, j \in 1 .. Len(requests) : i < j => requests[i] # requests[j]

\* C10 witness: a rate-limit answer (429) to the second request of the
\* boards export ended the fetch with two requests issued.
C10_Witness ==
    /\ script = "boards"
    /\ Len(responses) = 2
    /\ responses[2].status = 429
    /\ Len(requests) = 2
    /\ fetch = "returned"

\* C10 witness of the distinct tokens: three pages, three distinct requests.
C10_WitnessDistinct ==
    /\ Len(requests) = 3 /\ Len(responses) = 3
    /\ HasToken(responses[1]) /\ HasToken(responses[2])
    /\ responses[1].token # responses[2].token
    /\ requests[1] # requests[2] /\ requests[2] # requests[3] /\ requests[1] # requests[3]

\* C11: in the monitor a non-success status from the webhook is an error
\* of post_to_slack that leaves main: the run ends raised, never done, and
\* the one POST is not sent again.
C11_DeliveryFailureRaises ==
    ( script = "monitor"
      /\ \E i \in 1 .. Len(replies) : replies[i] < 200 \/ replies[i] > 299 )
    => /\ pc = "raised"
       /\ err = "HTTPError"
       /\ Len(posts) = 1
       /\ Len(replies) = 1

\* C11 witness: the webhook answered 500 to the report of a fetched member
\* list and the run ended with the error.
C11_Witness ==
    /\ script = "monitor"
    /\ fetch = "returned" /\ fetched # <<>>
    /\ replies = << 500 >>
    /\ Len(posts) = 1
    /\ pc = "raised"

\* The request carries no continuation token: no cursor parameter in the
\* members scripts, the endpoint's own URL in the boards export.
CarriesNoToken(i) ==
    IF script = "boards"
    THEN requests[i].url.base = BoardsBase
    ELSE requests[i].params.cursor = Absent

\* C12: pages are fetched one after the other. At most one request is
\* outstanding, the first request carries no token, and request i+1 exists
\* only once response i is there and carries exactly the token response i
\* returned.
C12_Sequential ==
    /\ Len(requests) \in {Len(responses), Len(responses) + 1}
    /\ requests # <<>> => CarriesNoToken(1)
    /\ \A i \in 1 .. Len(requests) - 1 :
         /\ i <= Len(responses)
         /\ HasToken(responses[i])
         /\ Carried(i + 1) = responses[i].token

\* C12 witness: the monitor has its third request outstanding, carrying c2
\* after c1.
C12_Witness ==
    /\ script = "monitor"
    /\ Len(requests) = 3 /\ Len(responses) = 2
    /\ requests[1].params.cursor = Absent
    /\ requests[2].params.cursor = "c1" /\ responses[1].token = "c1"
    /\ requests[3].params.cursor = "c2" /\ responses[2].token = "c2"

\* The number of records of rs that the monitor licenses: active truthy
\* and license "full".
LicensedIn(rs) ==
    Cardinality({ i \in 1 .. Len(rs) :
                    /\ rs[i].active \notin {Absent, None, JFalse, JZero, ""}
                    /\ rs[i].license = "full" })

\* C13: in the monitor, a POST is issued iff the fetch completed without
\* error, and then exactly one: after the last page (no request
\* outstanding, the last page without a usable token), with a message that
\* is one of the two variants, chosen by used > total from the count over
\* all the records of all the pages.
C13_OnePostAfterFetch ==
    script = "monitor" =>
        /\ Len(posts) <= 1
        /\ (Len(posts) = 1) <=> (fetch = "returned")
        /\ Len(posts) = 1 =>
             /\ Len(requests) = Len(responses)
             /\ \A i \in 1 .. Len(responses) : IsPage(responses[i])
             /\ ~HasToken(responses[Len(responses)])
             /\ posts[1].url = env.envHook.val
             /\ posts[1].text = msg
             /\ msg.variant \in {"Overage", "WithinLimit"}
             /\ (msg.variant = "Overage") <=> (msg.used > msg.total)
             /\ msg.total = TotalLicenses
             /\ msg.used = LicensedIn(ChainRecords(responses))
             /\ used = msg.used

\* C13 witness: three pages with two licensed members among three were
\* fetched and one report (within the limit, 598 available) was posted.
C13_Witness ==
    /\ script = "monitor"
    /\ Len(responses) = 3 /\ Len(fetched) = 3
    /\ Len(posts) = 1
    /\ posts[1].text.variant = "WithinLimit"
    /\ posts[1].text.used = 2
    /\ posts[1].text.value = TotalLicenses - 2

\* C14: a page whose continuation token is present but null or the empty
\* string ends the fetch like a page without the field: its records are
\* appended, no request follows, and the fetch returns all the records as
\* a normal result.
C14_FalsyTokenEnds ==
    ( responses # <<>>
      /\ IsPage(responses[Len(responses)])
      /\ responses[Len(responses)].token \in {None, ""} )
    => /\ fetch = "returned"
       /\ fetched = ChainRecords(responses)
       /\ Len(requests) = Len(responses)
       /\ script # "monitor" => pc = "done" /\ err = ""
       /\ script = "monitor" => Len(posts) = 1

\* C14 witness: the members export's second page came with "cursor": ""
\* and both pages' records were returned.
C14_Witness ==
    /\ script = "members"
    /\ Len(responses) = 2 /\ Len(requests) = 2
    /\ responses[2].token = ""
    /\ responses[2].data # <<>>
    /\ fetch = "returned"
    /\ Len(fetched) = 2

\* C14 witness of the null token in the boards export.
C14_WitnessNull ==
    /\ script = "boards"
    /\ Len(responses) = 2 /\ Len(requests) = 2
    /\ responses[2].token = None
    /\ fetch = "returned"
    /\ Len(fetched) = 2

\* C15: in both export scripts the CSV file is written iff the fetch
\* returned at least one record, with one row per returned record, in
\* order; when the first request fails or the collection is empty no file
\* is written, and when a later request fails the rows are those of the
\* pages before the failure.
C15_CsvIffRecords ==
    script \in {"boards", "members"} =>
        /\ csv.written <=> (fetch = "returned" /\ fetched # <<>>)
        /\ ~csv.written => csv = NoCsv
        /\ csv.written =>
             /\ csv.file = IF script = "boards" THEN "miro_boards_export.csv"
                           ELSE "miro_users_export.csv"
             /\ Len(csv.rows) = Len(fetched)
             /\ \A i \in 1 .. Len(fetched) : csv.rows[i][1] = fetched[i].id
        /\ ( responses # <<>> /\ NonSuccess(responses[Len(responses)]) )
           => /\ fetch = "returned"
              /\ fetched = ChainRecords(Earlier)

\* C15 witness: the boards export's third request failed and the file
\* holds the two rows of the first two pages.
C15_Witness ==
    /\ script = "boards"
    /\ Len(responses) = 3
    /\ NonSuccess(responses[3])
    /\ csv.written
    /\ Len(csv.rows) = 2
    /\ csv.rows[1][1] = "r2" /\ csv.rows[2][1] = "r1"

\* C15 witness of the first request failing: nothing written.
C15_WitnessFirstFails ==
    /\ script = "members"
    /\ Len(responses) = 1
    /\ NonSuccess(responses[1])
    /\ pc = "done"
    /\ ~csv.written

\* C15 witness of the empty collection: one page without records and
\* without token, nothing written.
C15_WitnessEmpty ==
    /\ script = "boards"
    /\ IsChain(responses)
    /\ fetched = <<>>
    /\ pc = "done"
    /\ ~csv.written

====
